---- MODULE Spec2Model ----
(***************************************************************************)
(* Tic-tac-toe board states (TicTacToeBoard), their rules (find_children,  *)
(* find_random_child, reward, make_move, _find_winner) and the self-play   *)
(* loop play_game that records (State, Turn, Action) triples.              *)
(*                                                                         *)
(* Python's None / True / False, as they appear in tup, turn and winner,   *)
(* are the strings "None" / "True" / "False"; `is` between them is         *)
(* equality.  The fields terminal and rand are BOOLEAN.                    *)
(***************************************************************************)
EXTENDS Integers, Sequences, FiniteSets, TLC

VARIABLES board,     \* play_game's local `board` / the board a rule is called on
          data,      \* the global dataset {'State': [], 'Turn': [], 'Action': []}
          pc,        \* position of the batch: "main", "loop" or "done"
          games,     \* iterations of the batch loop started so far
          moves,     \* iterations of the while loop done in the current game
          marks,     \* history: for each entry of data.State, <<game, move>> that wrote it
          out,       \* the winner line printed by the last iteration ("" when none)
          children,  \* the last result of find_children
          res        \* the last result of reward

vars == <<board, data, pc, games, moves, marks, out, children, res>>

\* ------------------------------------------------------------------ bounds
\* Games played by the batch (the program plays 500).
MaxGames == 2
\* The engine's answer is one of the first Branch empty cells of the board.
Branch == 2
\* The engine answers with search-chosen (rand = False) moves only while the
\* dataset holds fewer than MaxRecords records.
MaxRecords == 2

\* ------------------------------------------------------------------ values
None == "None"
True == "True"
False == "False"

Indices == 0..8

\* Python's `not v` for v in None / True / False.
Not(v) == IF v = True THEN False ELSE True

\* ------------------------------------------------------------------ rules
\* _winning_combos without the last yield (2, 4, 6).
_winning_combos_no_antidiagonal ==
    << <<0, 1, 2>>, <<3, 4, 5>>, <<6, 7, 8>>,
       <<0, 3, 6>>, <<1, 4, 7>>, <<2, 5, 8>>,
       <<0, 4, 8>> >>

_winning_combos ==
    << <<0, 1, 2>>, <<3, 4, 5>>, <<6, 7, 8>>,
       <<0, 3, 6>>, <<1, 4, 7>>, <<2, 5, 8>>,
       <<0, 4, 8>>, <<2, 4, 6>> >>

RECURSIVE find_winner_from(_, _)
find_winner_from(tup, k) ==
    IF k > Len(_winning_combos) THEN None
    ELSE LET v1 == tup[_winning_combos[k][1]]
             v2 == tup[_winning_combos[k][2]]
             v3 == tup[_winning_combos[k][3]]
         IN  IF False = v1 /\ v1 = v2 /\ v2 = v3 THEN False
             ELSE IF True = v1 /\ v1 = v2 /\ v2 = v3 THEN True
             ELSE find_winner_from(tup, k + 1)

_find_winner(tup) == find_winner_from(tup, 1)

\* new_tic_tac_toe_board with turn=False: O moves first.
new_tic_tac_toe_board_o_first ==
    [tup |-> [i \in Indices |-> None], turn |-> False, winner |-> None,
     terminal |-> FALSE, rand |-> FALSE]

new_tic_tac_toe_board ==
    [tup |-> [i \in Indices |-> None], turn |-> True, winner |-> None,
     terminal |-> FALSE, rand |-> FALSE]

\* make_move that drops the mark: tup = board.tup[:index] + board.tup[index:].
make_move_mark_dropped(b, index, rand) ==
    LET winner == _find_winner(b.tup)
    IN  [tup |-> b.tup, turn |-> Not(b.turn), winner |-> winner,
         terminal |-> (winner # None) \/ ~(\E i \in Indices : b.tup[i] = None),
         rand |-> rand]

\* make_move with is_terminal = no Empty cell remains (the winner forgotten).
make_move_terminal_when_full(b, index, rand) ==
    LET tup == [b.tup EXCEPT ![index] = b.turn]
        winner == _find_winner(tup)
    IN  [tup |-> tup, turn |-> Not(b.turn), winner |-> winner,
         terminal |-> ~(\E i \in Indices : tup[i] = None), rand |-> rand]

\* make_move with is_terminal = winner is not None (the full board forgotten).
make_move_terminal_when_won(b, index, rand) ==
    LET tup == [b.tup EXCEPT ![index] = b.turn]
        winner == _find_winner(tup)
    IN  [tup |-> tup, turn |-> Not(b.turn), winner |-> winner,
         terminal |-> (winner # None), rand |-> rand]

\* make_move without `turn = not board.turn`: the same player moves again.
make_move_turn_kept(b, index, rand) ==
    LET tup == [b.tup EXCEPT ![index] = b.turn]
        winner == _find_winner(tup)
    IN  [tup |-> tup, turn |-> b.turn, winner |-> winner,
         terminal |-> (winner # None) \/ ~(\E i \in Indices : tup[i] = None),
         rand |-> rand]

make_move(b, index, rand) ==
    LET tup == [b.tup EXCEPT ![index] = b.turn]
        turn == Not(b.turn)
        winner == _find_winner(tup)
        is_terminal == (winner # None) \/ ~(\E i \in Indices : tup[i] = None)
    IN  [tup |-> tup, turn |-> turn, winner |-> winner,
         terminal |-> is_terminal, rand |-> rand]

\* find_children without the terminal check.
find_children_ignoring_terminal(b) ==
    {make_move(b, i, FALSE) : i \in {j \in Indices : b.tup[j] = None}}

find_children(b) ==
    IF b.terminal THEN {}
    ELSE {make_move(b, i, FALSE) : i \in {j \in Indices : b.tup[j] = None}}

\* [i for i, value in enumerate(board.tup) if value is None], ascending.
RECURSIVE empty_from(_, _)
empty_from(tup, i) ==
    IF i > 8 THEN <<>>
    ELSE IF tup[i] = None THEN <<i>> \o empty_from(tup, i + 1)
    ELSE empty_from(tup, i + 1)

empty_spots(b) == empty_from(b.tup, 0)

\* The result of find_random_child when choice() picks the k-th empty spot
\* (k from 1); NoBoard is Python's None as a result.
NoBoard == [none |-> TRUE]

\* find_random_child without the terminal check.
find_random_child_ignoring_terminal(b, k) ==
    make_move(b, empty_spots(b)[k], TRUE)

\* find_random_child calling make_move without rand=True.
find_random_child_untagged(b, k) ==
    IF b.terminal THEN NoBoard
    ELSE make_move(b, empty_spots(b)[k], FALSE)

find_random_child(b, k) ==
    IF b.terminal THEN NoBoard
    ELSE make_move(b, empty_spots(b)[k], TRUE)

\* The outcome of reward: a returned value or a raised RuntimeError.
Return(v) == [value |-> v]
Raise(msg) == [error |-> msg]
NoResult == [pending |-> TRUE]

\* reward with the sign of the lost game flipped.
reward_sign_flipped(b) ==
    IF ~b.terminal THEN Raise("reward called on nonterminal board")
    ELSE IF b.winner = b.turn THEN Raise("reward called on unreachable board")
    ELSE IF b.turn = Not(b.winner) THEN Return(1)
    ELSE IF b.winner = None THEN Return(0)
    ELSE Raise("board has unknown winner type")

\* reward without the nonterminal test of its first two lines.
reward_without_terminal_test(b) ==
    IF b.winner = b.turn THEN Raise("reward called on unreachable board")
    ELSE IF b.turn = Not(b.winner) THEN Return(-1)
    ELSE IF b.winner = None THEN Return(0)
    ELSE Raise("board has unknown winner type")

reward(b) ==
    IF ~b.terminal THEN Raise("reward called on nonterminal board")
    ELSE IF b.winner = b.turn THEN Raise("reward called on unreachable board")
    ELSE IF b.turn = Not(b.winner) THEN Return(-1)
    ELSE IF b.winner = None THEN Return(0)
    ELSE Raise("board has unknown winner type")

is_terminal(b) == b.terminal

\* ------------------------------------------------------------------ play_game
\* encode_cell as '1' if x else '-1': the None case forgotten.
encode_cell_none_forgotten(x) == IF x = True THEN "1" ELSE "-1"

encode_cell(x) == IF x = None THEN "0" ELSE IF x = True THEN "1" ELSE "-1"

encode_turn(t) == IF t = True THEN "1" ELSE IF t = False THEN "-1" ELSE "0"

\* for i in range(9): if board.tup[i] != new_board.tup[i]: ... append(i)
RECURSIVE diff_from(_, _, _)
diff_from(old, new, i) ==
    IF i > 8 THEN <<>>
    ELSE IF old[i] # new[i] THEN <<i>> \o diff_from(old, new, i + 1)
    ELSE diff_from(old, new, i + 1)

\* log_move with the snapshot taken from new_board, after the move.
log_move_snapshot_after(d, b, new_board) ==
    IF ~new_board.rand
    THEN [State  |-> Append(d.State, [i \in Indices |-> encode_cell(new_board.tup[i])]),
          Turn   |-> Append(d.Turn, encode_turn(new_board.turn)),
          Action |-> d.Action \o diff_from(b.tup, new_board.tup, 0)]
    ELSE d

\* log_move with the action loop outside the `if not new_board.rand` block.
log_move_action_dedented(d, b, new_board) ==
    [State  |-> IF ~new_board.rand
                THEN Append(d.State, [i \in Indices |-> encode_cell(b.tup[i])])
                ELSE d.State,
     Turn   |-> IF ~new_board.rand THEN Append(d.Turn, encode_turn(b.turn)) ELSE d.Turn,
     Action |-> d.Action \o diff_from(b.tup, new_board.tup, 0)]

\* log_move without the `if not new_board.rand` test.
log_move_unconditional(d, b, new_board) ==
    [State  |-> Append(d.State, [i \in Indices |-> encode_cell(b.tup[i])]),
     Turn   |-> Append(d.Turn, encode_turn(b.turn)),
     Action |-> d.Action \o diff_from(b.tup, new_board.tup, 0)]

\* The dataset after the logging block of one iteration.
log_move(d, b, new_board) ==
    IF ~new_board.rand
    THEN [State  |-> Append(d.State, [i \in Indices |-> encode_cell(b.tup[i])]),
          Turn   |-> Append(d.Turn, encode_turn(b.turn)),
          Action |-> d.Action \o diff_from(b.tup, new_board.tup, 0)]
    ELSE d

\* announce under `if board.terminal:` instead of `if board.winner is not None:`.
announce_when_terminal(b) ==
    IF b.terminal THEN (IF b.winner = True THEN "X wins" ELSE "O wins") ELSE ""

announce(b) ==
    IF b.winner # None THEN (IF b.winner = True THEN "X wins" ELSE "O wins") ELSE ""

EmptyData == [State |-> <<>>, Turn |-> <<>>, Action |-> <<>>]

Init ==
    /\ board = new_tic_tac_toe_board
    /\ data = EmptyData
    /\ pc = "main"
    /\ games = 0
    /\ moves = 0
    /\ marks = <<>>
    /\ out = ""
    /\ children = {}
    /\ res = NoResult

\* Enter with the dataset created inside play_game, at every call.
Enter_dataset_recreated ==
    /\ pc = "main"
    /\ games' = games + 1
    /\ board' = new_tic_tac_toe_board
    /\ moves' = 0
    /\ out' = ""
    /\ pc' = "loop"
    /\ data' = EmptyData
    /\ marks' = <<>>
    /\ UNCHANGED <<children, res>>

\* Entry of play_game: tree = MCTS(); board = new_tic_tac_toe_board().
Enter ==
    /\ pc = "main"
    /\ games' = games + 1
    /\ board' = new_tic_tac_toe_board
    /\ moves' = 0
    /\ out' = ""
    /\ pc' = "loop"
    /\ UNCHANGED <<data, marks, children, res>>

\* for _ in range(500): play_game()
StartGame ==
    /\ games < MaxGames
    /\ Enter

\* One iteration of the while loop.  The rollouts change only the engine's
\* statistics; tree.choose answers with a successor of board, search-chosen
\* (rand False) or random (rand True).
Step ==
    /\ pc = "loop"
    /\ \E k \in 1..Branch, r \in BOOLEAN :
         /\ k <= Len(empty_spots(board))
         /\ (~r => Len(data.State) < MaxRecords)
         /\ LET new_board == make_move(board, empty_spots(board)[k], r)
            IN  /\ data' = log_move(data, board, new_board)
                /\ marks' = IF ~new_board.rand
                            THEN Append(marks, <<games, moves + 1>>) ELSE marks
                /\ board' = new_board
                /\ out' = announce(new_board)
                /\ pc' = IF new_board.terminal THEN "main" ELSE "loop"
    /\ moves' = moves + 1
    /\ UNCHANGED <<games, children, res>>

\* json.dump(data, handle, indent=2) after the last game.
Dump ==
    /\ pc = "main"
    /\ games = MaxGames
    /\ pc' = "done"
    /\ UNCHANGED <<board, data, games, moves, marks, out, children, res>>

\* The batch: MaxGames games, then the dump.
Next == StartGame \/ Step \/ Dump

Spec == Init /\ [][Next]_vars

\* One call of play_game on an empty dataset.
FirstGame ==
    /\ games = 0
    /\ Enter

NextGame == FirstGame \/ Step

SpecGame == Init /\ [][NextGame]_vars

\* ------------------------------------------------------------------ the rules, as the engine calls them
\* children[node] = node.find_children()
Expand ==
    /\ children' = find_children(board)
    /\ UNCHANGED <<board, data, pc, games, moves, marks, out, res>>

\* The engine descends to one of the children found.
Select ==
    /\ \E c \in children : board' = c
    /\ children' = {}
    /\ res' = NoResult
    /\ UNCHANGED <<data, pc, games, moves, marks, out>>

\* node = node.find_random_child() during a simulation.
RandomChild ==
    /\ ~is_terminal(board)
    /\ \E k \in 1..Len(empty_spots(board)) : board' = find_random_child(board, k)
    /\ children' = {}
    /\ res' = NoResult
    /\ UNCHANGED <<data, pc, games, moves, marks, out>>

\* reward = node.reward()
Reward ==
    /\ res' = reward(board)
    /\ UNCHANGED <<board, data, pc, games, moves, marks, out, children>>

NextRules == Expand \/ Select \/ RandomChild \/ Reward

\* Every board reachable from the root by the moves the rules offer.
SpecRules == Init /\ [][NextRules]_vars

\* Boards built from any cells and either turn, winner and terminal computed
\* from the cells as make_move computes them.
BoardOf(tup, turn) ==
    [tup |-> tup, turn |-> turn, winner |-> _find_winner(tup),
     terminal |-> (_find_winner(tup) # None) \/ ~(\E i \in Indices : tup[i] = None),
     rand |-> FALSE]

InitAnyBoard ==
    /\ board \in {BoardOf(t, p) : t \in [Indices -> {None, True, False}], p \in {True, False}}
    /\ data = EmptyData
    /\ pc = "main"
    /\ games = 0
    /\ moves = 0
    /\ marks = <<>>
    /\ out = ""
    /\ children = {}
    /\ res = NoResult

NextAnyBoard == Reward \/ Expand

SpecAnyBoard == InitAnyBoard /\ [][NextAnyBoard]_vars

\* Boards built by the TicTacToeBoard constructor from any field values: the
\* namedtuple takes cells, turn, winner and terminal as given.
InitRawBoard ==
    /\ board \in [tup : [Indices -> {None, True, False}], turn : {True, False},
                  winner : {None, True, False}, terminal : BOOLEAN, rand : {FALSE}]
    /\ data = EmptyData
    /\ pc = "main"
    /\ games = 0
    /\ moves = 0
    /\ marks = <<>>
    /\ out = ""
    /\ children = {}
    /\ res = NoResult

NextRawBoard == Reward

SpecRawBoard == InitRawBoard /\ [][NextRawBoard]_vars

\* ------------------------------------------------------------------ properties
Empties(b) == {i \in Indices : b.tup[i] = None}

DiffCells(a, b) == {i \in Indices : a.tup[i] # b.tup[i]}

\* The 8 lines of the board, by arithmetic: 3 rows, 3 columns, 2 diagonals.
Lines ==
    {{3 * r, 3 * r + 1, 3 * r + 2} : r \in 0..2}
        \cup {{c, c + 3, c + 6} : c \in 0..2}
        \cup {{0, 4, 8}, {2, 4, 6}}

HasLine(tup, mark) == \E l \in Lines : \A i \in l : tup[i] = mark

\* C1: on every board reachable by legal moves, find_children is empty when
\* the board is terminal; otherwise it has exactly one successor per Empty
\* cell, and each successor differs from the parent in exactly one cell, which
\* was Empty and now holds the parent's turn mark, with turn flipped.
C1_find_children ==
    /\ board.terminal => find_children(board) = {}
    /\ ~board.terminal =>
         /\ Cardinality(find_children(board)) = Cardinality(Empties(board))
         /\ \A c \in find_children(board) :
              \E i \in Indices :
                 /\ DiffCells(board, c) = {i}
                 /\ board.tup[i] = None
                 /\ c.tup[i] = board.turn
                 /\ c.turn = Not(board.turn)
                 /\ c.turn # board.turn
    /\ board = new_tic_tac_toe_board =>
         \E c \in find_children(board) :
            /\ c.tup = [i \in Indices |-> IF i = 4 THEN True ELSE None]
            /\ c.turn = False /\ c.winner = None /\ ~c.terminal

\* find_children has answered on a board in mid-game with O to move.
C1_witness ==
    /\ ~board.terminal
    /\ board.turn = False
    /\ Cardinality(Empties(board)) = 4
    /\ Cardinality(children) = 4
    /\ children = find_children(board)

\* C2: on every terminal board reachable by legal moves reward raises nothing
\* and returns -1 or 0, never +1: -1 exactly when winner is set (and the
\* winner is then the player not about to move), 0 exactly when it is unset.
C2_reward_terminal ==
    board.terminal =>
        /\ reward(board) \in {Return(-1), Return(0)}
        /\ reward(board) # Return(1)
        /\ (reward(board) = Return(-1)) <=> (board.winner # None)
        /\ (reward(board) = Return(0)) <=> (board.winner = None)
        /\ board.winner # None => board.winner = Not(board.turn)
        /\ res # NoResult => res = reward(board)

\* reward has returned -1 on a board O has won, X to move.
C2_witness ==
    /\ board.terminal
    /\ board.winner = False
    /\ board.turn = True
    /\ res = Return(-1)

\* C3: on every terminal board whose winner is unset, whichever player is to
\* move, reward returns 0.
C3_draw_reward_zero ==
    (board.terminal /\ board.winner = None /\ res # NoResult) => res = Return(0)

\* C4, as claimed: make_move on a board whose winner is set, at any Empty
\* cell, gives a board with the same winner.
C4_winner_kept_by_make_move ==
    board.winner # None =>
        \A i \in Empties(board) : make_move(board, i, FALSE).winner = board.winner

\* C4, amended: a board whose winner is set is terminal and has no legal
\* successor, so no legal move reassigns winner; make_move applied to it
\* anyway leaves a winner set, and it is the old winner unless the placed
\* mark completes a line of the mover, who then becomes the winner.
C4_winner_fixed_on_legal_moves ==
    board.winner # None =>
        /\ board.terminal
        /\ find_children(board) = {}
        /\ \A k \in 1..Len(empty_spots(board)) : find_random_child(board, k) = NoBoard
        /\ \A i \in Empties(board) :
              LET n == make_move(board, i, FALSE)
              IN  /\ n.winner # None
                  /\ \/ n.winner = board.winner
                     \/ n.winner = board.turn /\ HasLine(n.tup, board.turn)

\* X has won, and a further O mark would complete an O line scanned first.
C4_witness ==
    /\ board.winner = True
    /\ find_children(board) = {}
    /\ \E i \in Empties(board) : make_move(board, i, FALSE).winner = False

\* C7: on every board reachable by make_move, terminal holds exactly when
\* winner is set or no Empty cell remains; the root (the only reachable board
\* with 9 Empty cells) has terminal false, winner unset, X to move, rand false.
C7_terminal_iff ==
    /\ board.terminal <=> (board.winner # None \/ Empties(board) = {})
    /\ Empties(board) = Indices =>
         /\ board = new_tic_tac_toe_board
         /\ ~board.terminal /\ board.winner = None
         /\ board.turn = True /\ ~board.rand

\* A draw: the board is full, no winner, terminal.
C7_witness ==
    /\ Empties(board) = {}
    /\ board.winner = None
    /\ board.terminal

ExampleWin ==
    [i \in Indices |-> IF i \in {0, 1, 2} THEN True ELSE IF i \in {3, 4} THEN False ELSE None]

\* C8: on every board reachable by legal moves, winner is X exactly when one
\* of the 8 lines holds three X marks, O exactly when one holds three O marks,
\* unset otherwise, and never both kinds of line at once; the cells
\* X X X O O _ _ _ _ give winner X and terminal true.
C8_winner_matches_lines ==
    /\ Cardinality(Lines) = 8
    /\ (board.winner = True) <=> HasLine(board.tup, True)
    /\ (board.winner = False) <=> HasLine(board.tup, False)
    /\ (board.winner = None) <=> (~HasLine(board.tup, True) /\ ~HasLine(board.tup, False))
    /\ ~(HasLine(board.tup, True) /\ HasLine(board.tup, False))
    /\ board.tup = ExampleWin => (board.winner = True /\ board.terminal)

\* The example board has been reached.
C8_witness ==
    /\ board.tup = ExampleWin
    /\ board.winner = True
    /\ board.terminal

\* C5: a game terminates.  Each iteration of the loop lowers the number of
\* Empty cells by exactly one (so no board recurs and at most 9 moves are
\* made), the loop never runs on a terminal board, a legal successor always
\* exists while the loop runs, and the loop is left exactly on a terminal
\* board.
C5_game_terminates ==
    /\ [](moves <= 9 /\ Cardinality(Empties(board)) = 9 - moves)
    /\ [][pc = "loop" =>
            /\ moves' = moves + 1
            /\ Empties(board') \subseteq Empties(board)
            /\ Cardinality(Empties(board')) = Cardinality(Empties(board)) - 1
            /\ pc' = "main" <=> board'.terminal]_vars
    /\ [](pc = "loop" => (~board.terminal /\ find_children(board) # {}))
    /\ []((pc = "main" /\ games = 1) => board.terminal)

\* A game has ended in a draw on its 9th move.
C5_witness ==
    /\ pc = "main" /\ games = 1
    /\ moves = 9
    /\ board.terminal /\ board.winner = None

decode_cell(c) == IF c = "0" THEN None ELSE IF c = "1" THEN True ELSE False

decode_turn(t) == IF t = "1" THEN True ELSE IF t = "-1" THEN False ELSE None

\* The board a record describes (winner, terminal and rand are not recorded).
Decoded(i) ==
    [tup |-> [j \in Indices |-> decode_cell(data.State[i][j])],
     turn |-> decode_turn(data.Turn[i]),
     winner |-> None, terminal |-> FALSE, rand |-> FALSE]

\* make_move on record i with its action gives the cells and turn of record i + 1.
RoundTrip(i) ==
    LET n == make_move(Decoded(i), data.Action[i], FALSE)
    IN  /\ [j \in Indices |-> encode_cell(n.tup[j])] = data.State[i + 1]
        /\ encode_turn(n.turn) = data.Turn[i + 1]

SameGame(i) == marks[i][1] = marks[i + 1][1]

ConsecutiveMoves(i) == SameGame(i) /\ marks[i + 1][2] = marks[i][2] + 1

\* C6, as claimed: the round trip holds for any two consecutive records of
\* the same game.
C6_round_trip_same_game ==
    \A i \in 1..(Len(data.State) - 1) : SameGame(i) => RoundTrip(i)

\* C6, amended: the round trip holds for two consecutive records of the same
\* game that were logged by consecutive moves of it, and fails when a random
\* move was taken between them.
C6_round_trip_consecutive_moves ==
    \A i \in 1..(Len(data.State) - 1) :
        /\ ConsecutiveMoves(i) => RoundTrip(i)
        /\ (SameGame(i) /\ ~ConsecutiveMoves(i)) => ~RoundTrip(i)

\* Moves 2 and 3 of a game were logged, after a random first move.
C6_witness ==
    /\ Len(data.State) = 2
    /\ marks = << <<1, 2>>, <<1, 3>> >>
    /\ RoundTrip(1)

\* C9: State, Turn and Action have the same length after every iteration of
\* the loop, in every game of the batch.
C9_lockstep ==
    /\ Len(data.State) = Len(data.Turn)
    /\ Len(data.Turn) = Len(data.Action)
    /\ Len(data.Action) = Len(marks)

\* The second game has logged a move after the first game logged one, and a
\* random move was just taken.
C9_witness ==
    /\ games = 2
    /\ pc = "loop"
    /\ Len(data.Action) = 2
    /\ marks[1][1] = 1 /\ marks[2][1] = 2
    /\ board.rand

\* C10: an iteration whose chosen successor has rand true leaves State, Turn
\* and Action as they were; one whose chosen successor has rand false appends
\* exactly one entry to each.
C10_only_search_moves_logged ==
    [][pc = "loop" =>
         /\ board'.rand => data' = data
         /\ ~board'.rand =>
              /\ Len(data'.State) = Len(data.State) + 1
              /\ Len(data'.Turn) = Len(data.Turn) + 1
              /\ Len(data'.Action) = Len(data.Action) + 1
              /\ SubSeq(data'.State, 1, Len(data.State)) = data.State
              /\ SubSeq(data'.Turn, 1, Len(data.Turn)) = data.Turn
              /\ SubSeq(data'.Action, 1, Len(data.Action)) = data.Action]_vars

\* A game has made a random move and a logged one.
C10_witness ==
    /\ games = 1
    /\ moves = 2
    /\ Len(data.State) = 1
    /\ Len(data.Action) = 1

NonTerminalError == Raise("reward called on nonterminal board")

\* C11: reward called on a non-terminal board ends in the error 'reward called
\* on nonterminal board' and returns no value, whatever the cells, turn and
\* winner of the board.
C11_reward_nonterminal_raises ==
    ~board.terminal =>
        /\ reward(board) = NonTerminalError
        /\ \A v \in {-1, 0, 1} : reward(board) # Return(v)
        /\ res # NoResult => res = NonTerminalError

\* reward has raised on a non-terminal board whose winner field equals turn.
C11_witness ==
    /\ ~board.terminal
    /\ board.winner = True
    /\ board.turn = True
    /\ res = NonTerminalError

UnreachableError == Raise("reward called on unreachable board")

\* C12: on no board reachable by legal moves is winner equal to turn, so
\* reward never ends in the error 'reward called on unreachable board'.
C12_mover_never_winner ==
    /\ board.winner # board.turn
    /\ reward(board) # UnreachableError
    /\ res # UnreachableError

\* reward has answered on a board X has won, O to move.
C12_witness ==
    /\ board.terminal
    /\ board.winner = True
    /\ board.turn = False
    /\ res = Return(-1)

\* C13: the shape of a game.  Every move starts from a non-terminal board and
\* places the mover's mark on one Empty cell; a move into a board with winner
\* set completes one of the 8 lines through the placed cell with the mover's
\* mark, from a board with no winner, and the winner is the mover; a move
\* into a terminal board with winner unset fills the 9th cell; terminal
\* boards have no successors.
C13_state_machine ==
    /\ [][board' # board =>
            /\ ~board.terminal
            /\ board.winner = None
            /\ \E i \in Indices :
                 /\ DiffCells(board, board') = {i}
                 /\ board.tup[i] = None
                 /\ board'.tup[i] = board.turn
                 /\ board'.winner # None =>
                      /\ board'.winner = board.turn
                      /\ board'.terminal
                      /\ \E l \in Lines :
                           i \in l /\ \A j \in l : board'.tup[j] = board.turn
            /\ (board'.terminal /\ board'.winner = None) =>
                 /\ Empties(board') = {}
                 /\ Cardinality(Empties(board)) = 1
                 /\ ~HasLine(board'.tup, True) /\ ~HasLine(board'.tup, False)]_vars
    /\ [](board.terminal =>
            /\ find_children(board) = {}
            /\ \A k \in 1..Len(empty_spots(board)) : find_random_child(board, k) = NoBoard)

\* O has completed a line on the 6th move of a game.
C13_witness ==
    /\ board.winner = False
    /\ board.terminal
    /\ Cardinality(Empties(board)) = 3
    /\ find_children(board) = {}

Count(b, mark) == Cardinality({i \in Indices : b.tup[i] = mark})

\* C14: on every board reachable by legal moves the number of X marks minus
\* the number of O marks is 0 or 1, turn is X exactly when the two numbers are
\* equal, and every move flips turn.
C14_turn_consistent ==
    /\ [](/\ Count(board, True) - Count(board, False) \in {0, 1}
          /\ board.turn \in {True, False}
          /\ (board.turn = True) <=> (Count(board, True) = Count(board, False))
          /\ (board.turn = False) <=> (Count(board, True) = Count(board, False) + 1))
    /\ [][board' # board =>
            /\ board'.turn = Not(board.turn)
            /\ board'.turn # board.turn]_vars

\* Five moves have been made and O is to move.
C14_witness ==
    /\ Count(board, True) = 3
    /\ Count(board, False) = 2
    /\ board.turn = False

Last(q) == q[Len(q)]

\* C15: play_game hands only non-terminal boards to the engine and leaves the
\* loop on the first terminal board; a logged record holds the board as it
\* was before the move; the winner line is printed exactly when the new board
\* has a winner.
C15_loop_shape ==
    /\ [](pc = "loop" => ~board.terminal)
    /\ []((out # "") <=> (board.winner # None))
    /\ [][pc = "loop" =>
            /\ ~board.terminal
            /\ (pc' = "main") <=> board'.terminal
            /\ (pc' = "loop") <=> ~board'.terminal
            /\ (out' = "X wins") <=> (board'.winner = True)
            /\ (out' = "O wins") <=> (board'.winner = False)
            /\ (out' = "") <=> (board'.winner = None)
            /\ ~board'.rand =>
                 /\ Last(data'.State) = [i \in Indices |-> encode_cell(board.tup[i])]
                 /\ Last(data'.State) # [i \in Indices |-> encode_cell(board'.tup[i])]
                 /\ Last(data'.Turn) = encode_turn(board.turn)
                 /\ board.tup[Last(data'.Action)] # board'.tup[Last(data'.Action)]]_vars

\* A game has ended on a logged move that won it for O.
C15_witness ==
    /\ pc = "main" /\ games = 1
    /\ board.terminal /\ board.winner = False
    /\ out = "O wins"
    /\ ~board.rand
    /\ Len(data.State) > 0
    /\ Last(marks) = <<1, moves>>

SameButRand(a, b) ==
    /\ a.tup = b.tup
    /\ a.turn = b.turn
    /\ a.winner = b.winner
    /\ a.terminal = b.terminal

\* C16: on a terminal board find_random_child returns None; on every
\* non-terminal board reachable by legal moves an Empty cell exists, every
\* result of find_random_child has rand true and agrees in cells, turn,
\* winner and terminal with a successor in find_children, and every successor
\* in find_children has rand false.
C16_random_child ==
    /\ board.terminal =>
         \A k \in 1..9 : find_random_child(board, k) = NoBoard
    /\ ~board.terminal =>
         /\ Empties(board) # {}
         /\ Len(empty_spots(board)) = Cardinality(Empties(board))
         /\ \A k \in 1..Len(empty_spots(board)) :
              LET r == find_random_child(board, k)
              IN  /\ r # NoBoard
                  /\ r.rand
                  /\ \E c \in find_children(board) : SameButRand(c, r) /\ c # r
         /\ \A c \in find_children(board) : ~c.rand

\* A board reached by find_random_child, from which it can answer again.
C16_witness ==
    /\ board.rand
    /\ ~board.terminal
    /\ Cardinality(Empties(board)) = 2
    /\ find_random_child(board, 2).rand
    /\ find_random_child(board, 2).terminal

Codes(snapshot, code) == Cardinality({j \in Indices : snapshot[j] = code})

\* C17: every record is well formed.  State[i] has 9 entries, each "0", "1"
\* or "-1", and encodes the board before the move (as many marks as moves made
\* before it, X to move exactly when the marks are balanced); Turn[i] is "1"
\* or "-1", never "0"; Action[i] is in 0..8 and State[i] holds "0" there.
C17_records_well_formed ==
    /\ Len(data.Turn) = Len(data.State)
    /\ Len(data.Action) = Len(data.State)
    /\ \A i \in 1..Len(data.State) :
         /\ DOMAIN data.State[i] = Indices
         /\ \A j \in Indices : data.State[i][j] \in {"0", "1", "-1"}
         /\ data.Turn[i] \in {"1", "-1"}
         /\ data.Turn[i] # "0"
         /\ data.Action[i] \in 0..8
         /\ data.State[i][data.Action[i]] = "0"
         /\ Codes(data.State[i], "1") + Codes(data.State[i], "-1") = marks[i][2] - 1
         /\ (data.Turn[i] = "1") <=> (Codes(data.State[i], "1") = Codes(data.State[i], "-1"))

\* An X move and a later O move of one game have been logged.
C17_witness ==
    /\ Len(data.State) = 2
    /\ data.Turn = <<"1", "-1">>
    /\ Codes(data.State[2], "1") = 2
    /\ data.Action[2] > data.Action[1]

IsPrefix(p, q) == Len(p) <= Len(q) /\ SubSeq(q, 1, Len(p)) = p

\* C18: the dataset is append-only over the batch.  No step changes or
\* removes an entry of State, Turn or Action; the start of a game keeps the
\* dataset as the earlier games left it and sets the board to the root (all
\* cells Empty, X to move); the dump leaves the dataset as it is.
C18_append_only ==
    [][/\ IsPrefix(data.State, data'.State)
       /\ IsPrefix(data.Turn, data'.Turn)
       /\ IsPrefix(data.Action, data'.Action)
       /\ games' # games =>
            /\ data' = data
            /\ Empties(board') = Indices
            /\ board'.turn = True
            /\ board'.winner = None /\ ~board'.terminal /\ ~board'.rand
       /\ pc' = "done" => data' = data]_vars

\* The second game starts from the root with the two records of the first.
C18_witness ==
    /\ games = 2
    /\ pc = "loop"
    /\ moves = 0
    /\ Empties(board) = Indices
    /\ Len(data.State) = 2
    /\ marks[1][1] = 1 /\ marks[2][1] = 1

====
